---- MODULE Spec2Model ----
(***************************************************************************)
(* HealthSync Pro inventory dashboard (src/app.py).                        *)
(*                                                                         *)
(* The page script is re-executed top to bottom on every interaction.  A   *)
(* run is modelled as a sequence of steps (pc), one per section of the     *)
(* script; the names bound by the script so far are kept in `bound`, the   *)
(* elements written to the page so far in `rendered`.  What survives a run *)
(* is the st.cache_data store, the widget state and the button trigger.    *)
(***************************************************************************)
EXTENDS Integers, Sequences, FiniteSets, TLC

\* ---------------------------------------------------------------- bounds
MaxRows == 6            \* most rows a warehouse snapshot holds

\* ------------------------------------------------------ program constants
SENTINEL == 999         \* .replace(999, 0)
TOP_N == 5              \* .head(5)

CRITICAL == "CRITICAL (Stockout Risk)"
WARNING == "WARNING (Reorder Soon)"
GOOD == "GOOD"

\* columns whose cells are numbers
NUMERIC == {"CURRENT_STOCK", "SUGGESTED_REORDER_QTY", "DAYS_REMAINING", "AVG_DAILY_USAGE"}

\* the column selection handed to st.dataframe
TABLE_COLUMNS ==
    <<"LOCATION_ID", "ITEM_NAME", "CURRENT_STOCK", "SUGGESTED_REORDER_QTY",
      "STATUS", "DAYS_REMAINING">>

\* ------------------------------------------------- the warehouse table
\* Rows the upstream table may hold; a fetch returns some of them, in this
\* order.  Rows 4 and 6 carry the sentinel, rows 3 and 7 tie on
\* DAYS_REMAINING.
Row(l, i, s, q, st, d, u) ==
    [LOCATION_ID |-> l, ITEM_NAME |-> i, CURRENT_STOCK |-> s,
     SUGGESTED_REORDER_QTY |-> q, STATUS |-> st, DAYS_REMAINING |-> d,
     AVG_DAILY_USAGE |-> u]

Catalog ==
    << Row("LOC_A", "Gloves",   40,  60,  CRITICAL, 2,   20),
       Row("LOC_A", "Masks",    0,   100, CRITICAL, 0,   10),
       Row("LOC_A", "Syringes", 120, 30,  WARNING,  12,  10),
       Row("LOC_A", "Gauze",    500, 0,   GOOD,     999, 0),
       Row("LOC_B", "Gloves",   450, 0,   GOOD,     45,  10),
       Row("LOC_B", "Masks",    300, 0,   GOOD,     999, 0),
       Row("LOC_B", "Syringes", 60,  40,  WARNING,  12,  5) >>

\* column orders the table may be declared with
TableColumnOrders ==
    { <<"LOCATION_ID", "ITEM_NAME", "CURRENT_STOCK", "SUGGESTED_REORDER_QTY",
        "STATUS", "DAYS_REMAINING", "AVG_DAILY_USAGE">>,
      <<"ITEM_NAME", "LOCATION_ID", "STATUS", "DAYS_REMAINING",
        "AVG_DAILY_USAGE", "CURRENT_STOCK", "SUGGESTED_REORDER_QTY">> }

\* the rows of Catalog at the indexes in S, in table order
RowsAt(S) ==
    LET F[i \in 0..Len(Catalog)] ==
            IF i = 0 THEN <<>>
            ELSE IF i \in S THEN Append(F[i - 1], Catalog[i]) ELSE F[i - 1]
    IN F[Len(Catalog)]

\* session.table(...).to_pandas(): every frame a fetch can return
Snapshots ==
    { [columns |-> c, rows |-> RowsAt(S)] :
        c \in TableColumnOrders,
        S \in { T \in SUBSET (1..Len(Catalog)) : Cardinality(T) <= MaxRows } }

EmptyFrame == [columns |-> <<>>, rows |-> <<>>]

\* ------------------------------------------------------ frame operations
Range(s) == { s[i] : i \in 1..Len(s) }

\* sorted(df[col].unique()): the distinct values of a column
Unique(df, col) == { r[col] : r \in Range(df.rows) }

\* df[mask]: the frame with the rows kept by the mask, in frame order
Masked(df, kept) == [columns |-> df.columns, rows |-> kept]

\* FilterRows with | in place of &
FilterRows_either(df, locs, stats) ==
    Masked(df, SelectSeq(df.rows, LAMBDA r : r.LOCATION_ID \in locs \/ r.STATUS \in stats))

\* df_raw[LOCATION_ID.isin(locs) & STATUS.isin(stats)]
FilterRows(df, locs, stats) ==
    Masked(df, SelectSeq(df.rows, LAMBDA r : r.LOCATION_ID \in locs /\ r.STATUS \in stats))

\* CountStatus that takes every status other than 'GOOD' for the label
CountStatus_anyalert(df, label) ==
    Len(Masked(df, SelectSeq(df.rows, LAMBDA r : r.STATUS # GOOD)).rows)

\* len(df[df['STATUS'] == label])
CountStatus(df, label) ==
    Len(Masked(df, SelectSeq(df.rows, LAMBDA r : r.STATUS = label)).rows)

\* Series.replace(999, 0)
Replace(d) == IF d = SENTINEL THEN 0 ELSE d

RECURSIVE SumSeq(_)
SumSeq(s) == IF s = <<>> THEN 0 ELSE Head(s) + SumSeq(Tail(s))

\* round(x, 1) of the quotient num/den, in tenths, ties to the even tenth
RoundTenths(num, den) ==
    LET q == (10 * num) \div den
        r == (10 * num) % den
    IN IF 2 * r < den THEN q
       ELSE IF 2 * r > den THEN q + 1
       ELSE IF q % 2 = 0 THEN q ELSE q + 1

NaN == [nan |-> TRUE, tenths |-> 0]
Tenths(t) == [nan |-> FALSE, tenths |-> t]

\* round(df['DAYS_REMAINING'].replace(999, 0).mean(), 1)
AvgCoverage(df) ==
    LET days == [i \in 1..Len(df.rows) |-> Replace(df.rows[i].DAYS_REMAINING)]
    IN IF Len(days) = 0 THEN NaN
       ELSE Tenths(RoundTenths(SumSeq(days), Len(days)))

\* delta= of the Critical Alerts metric
CriticalDelta(n) == IF n > 0 THEN "-Action Needed" ELSE "All Good"

\* insert row r into a sequence sorted by DAYS_REMAINING, after its equals
RECURSIVE Insert(_, _)
Insert(r, s) ==
    IF s = <<>> THEN <<r>>
    ELSE IF r.DAYS_REMAINING < Head(s).DAYS_REMAINING THEN <<r>> \o s
    ELSE <<Head(s)>> \o Insert(r, Tail(s))

\* df.sort_values('DAYS_REMAINING'): ascending; equal keys stay in frame
\* order, which is what the default sort does on a frame this short
SortValues(df) ==
    LET F[i \in 0..Len(df.rows)] ==
            IF i = 0 THEN <<>> ELSE Insert(df.rows[i], F[i - 1])
    IN [columns |-> df.columns, rows |-> F[Len(df.rows)]]

\* df.head(n)
HeadN(df, n) ==
    [columns |-> df.columns,
     rows |-> SubSeq(df.rows, 1, IF Len(df.rows) < n THEN Len(df.rows) ELSE n)]

\* RiskDf with the sort left out
RiskDf_unsorted(df) == HeadN(df, TOP_N)

\* df_filtered.sort_values('DAYS_REMAINING').head(5)
RiskDf(df) == HeadN(SortValues(df), TOP_N)

\* df_filtered[df_filtered['STATUS'] != 'GOOD'].copy()
ActionDf(df) == Masked(df, SelectSeq(df.rows, LAMBDA r : r.STATUS # GOOD))

\* a cell as to_csv writes it
Cell(r, col) == IF col \in NUMERIC THEN ToString(r[col]) ELSE r[col]

\* one line of the CSV: the cells of r in the order of cols
Line(r, cols) == [i \in 1..Len(cols) |-> Cell(r, cols[i])]

\* df.to_csv(index=False): the header line, then one line per row
ToCsv(df) ==
    <<df.columns>> \o [i \in 1..Len(df.rows) |-> Line(df.rows[i], df.columns)]

\* df[cols]: the frame restricted to the listed columns, in that order
Project(df, cols) ==
    [columns |-> cols,
     rows |-> [i \in 1..Len(df.rows) |-> [c \in Range(cols) |-> df.rows[i][c]]]]

\* ------------------------------------------------------------------ state
VARIABLES
    cache,               \* st.cache_data store of load_data: <<>> or <<frame>>
    loc_widget,          \* "Select Locations" multiselect: options and value
    stat_widget,         \* "Filter by Status" multiselect: options and value
    button,              \* trigger value of the Refresh Data button
    pc,                  \* section of the script the run is about to execute
    bound,               \* names the run has assigned so far
    rendered,            \* elements the run has written to the page
    df_raw,
    selected_locations,
    selected_statuses,
    df_filtered,
    total_items,
    critical_items,
    warning_items,
    avg_coverage,
    delta,               \* delta text of the Critical Alerts metric
    risk_df,
    action_df,
    table,               \* the frame handed to st.dataframe
    csv,                 \* the data of the download button
    queried,             \* the body of load_data ran in this run
    after_refresh        \* this run was started by the Refresh Data rerun

session == <<cache, loc_widget, stat_widget, button>>
inputs == <<df_raw, selected_locations, selected_statuses>>
metrics == <<total_items, critical_items, warning_items, avg_coverage, delta>>
tabs == <<risk_df, action_df, table, csv>>
locals == <<inputs, df_filtered, metrics, tabs>>
vars == <<session, pc, bound, rendered, locals, queried, after_refresh>>

NoWidget == [options |-> {}, value |-> {}]

\* a fresh execution of the script: nothing bound, nothing rendered
StartRun ==
    /\ pc' = "load"
    /\ bound' = {}
    /\ rendered' = {}
    /\ df_raw' = EmptyFrame
    /\ selected_locations' = {}
    /\ selected_statuses' = {}
    /\ df_filtered' = EmptyFrame
    /\ total_items' = 0
    /\ critical_items' = 0
    /\ warning_items' = 0
    /\ avg_coverage' = NaN
    /\ delta' = ""
    /\ risk_df' = EmptyFrame
    /\ action_df' = EmptyFrame
    /\ table' = EmptyFrame
    /\ csv' = <<>>
    /\ queried' = FALSE

Init ==
    /\ cache = <<>>
    /\ loc_widget = NoWidget
    /\ stat_widget = NoWidget
    /\ button = FALSE
    /\ pc = "load"
    /\ bound = {}
    /\ rendered = {}
    /\ df_raw = EmptyFrame
    /\ selected_locations = {}
    /\ selected_statuses = {}
    /\ df_filtered = EmptyFrame
    /\ total_items = 0
    /\ critical_items = 0
    /\ warning_items = 0
    /\ avg_coverage = NaN
    /\ delta = ""
    /\ risk_df = EmptyFrame
    /\ action_df = EmptyFrame
    /\ table = EmptyFrame
    /\ csv = <<>>
    /\ queried = FALSE
    /\ after_refresh = FALSE

\* --------------------------------------------------- section 2: load_data
\* LoadHit with the cache decorator left out: the body runs on every call
LoadHit_uncached ==
    /\ pc = "load"
    /\ cache # <<>>
    /\ \E snap \in Snapshots :
        /\ cache' = <<snap>>
        /\ df_raw' = snap
    /\ queried' = TRUE
    /\ bound' = bound \cup {"df_raw"}
    /\ pc' = "sidebar"
    /\ UNCHANGED <<loc_widget, stat_widget, button, rendered, selected_locations,
                   selected_statuses, df_filtered, metrics, tabs, after_refresh>>

\* load_data() with the result in the cache: the body does not run
LoadHit ==
    /\ pc = "load"
    /\ cache # <<>>
    /\ df_raw' = cache[1]
    /\ bound' = bound \cup {"df_raw"}
    /\ pc' = "sidebar"
    /\ UNCHANGED <<session, rendered, selected_locations, selected_statuses,
                   df_filtered, metrics, tabs, queried, after_refresh>>

\* load_data() with an empty cache: the table is read and the result stored
LoadMiss ==
    /\ pc = "load"
    /\ cache = <<>>
    /\ \E snap \in Snapshots :
        /\ cache' = <<snap>>
        /\ df_raw' = snap
    /\ queried' = TRUE
    /\ bound' = bound \cup {"df_raw"}
    /\ pc' = "sidebar"
    /\ UNCHANGED <<loc_widget, stat_widget, button, rendered, selected_locations,
                   selected_statuses, df_filtered, metrics, tabs, after_refresh>>

\* LoadFail with st.stop() left out: the script goes on after st.error
LoadFail_nostop ==
    /\ pc = "load"
    /\ cache = <<>>
    /\ queried' = TRUE
    /\ rendered' = rendered \cup {"error"}
    /\ pc' = "sidebar"
    /\ UNCHANGED <<session, bound, locals, after_refresh>>

\* load_data() raises: st.error, st.stop.  Nothing is stored; the widgets
\* the run did not reach lose their state and the trigger is consumed.
LoadFail ==
    /\ pc = "load"
    /\ cache = <<>>
    /\ queried' = TRUE
    /\ rendered' = rendered \cup {"error"}
    /\ pc' = "stopped"
    /\ loc_widget' = NoWidget
    /\ stat_widget' = NoWidget
    /\ button' = FALSE
    /\ UNCHANGED <<cache, bound, locals, after_refresh>>

\* ----------------------------------------------------- section 3: sidebar
\* st.multiselect(label, options, default=options): the stored value while
\* the options are the ones the widget was created with, else the default
WidgetValue(w, options) == IF w.options = options THEN w.value ELSE options

Sidebar ==
    /\ pc = "sidebar"
    /\ "df_raw" \in bound
    /\ LET all_locations == Unique(df_raw, "LOCATION_ID")
           all_statuses == Unique(df_raw, "STATUS")
       IN /\ selected_locations' = WidgetValue(loc_widget, all_locations)
          /\ selected_statuses' = WidgetValue(stat_widget, all_statuses)
          /\ loc_widget' = [options |-> all_locations,
                            value |-> WidgetValue(loc_widget, all_locations)]
          /\ stat_widget' = [options |-> all_statuses,
                             value |-> WidgetValue(stat_widget, all_statuses)]
    /\ bound' = bound \cup {"selected_locations", "selected_statuses"}
    /\ rendered' = rendered \cup {"sidebar_title", "select_locations", "filter_status"}
    /\ pc' = "button"
    /\ UNCHANGED <<cache, button, df_raw, df_filtered, metrics, tabs,
                   queried, after_refresh>>

\* st.button returns False: the script goes on
ButtonIdle ==
    /\ pc = "button"
    /\ ~button
    /\ rendered' = rendered \cup {"refresh_button"}
    /\ pc' = "filter"
    /\ UNCHANGED <<session, bound, locals, queried, after_refresh>>

\* ButtonRefresh with st.cache_data.clear() left out
ButtonRefresh_noclear ==
    /\ pc = "button"
    /\ button
    /\ button' = FALSE
    /\ after_refresh' = TRUE
    /\ StartRun
    /\ UNCHANGED <<cache, loc_widget, stat_widget>>

\* st.button returns True: st.cache_data.clear(), st.experimental_rerun()
ButtonRefresh ==
    /\ pc = "button"
    /\ button
    /\ cache' = <<>>
    /\ button' = FALSE
    /\ after_refresh' = TRUE
    /\ StartRun
    /\ UNCHANGED <<loc_widget, stat_widget>>

\* ---------------------------------------------------- section 4: filter
Filter ==
    /\ pc = "filter"
    /\ {"df_raw", "selected_locations", "selected_statuses"} \subseteq bound
    /\ df_filtered' = FilterRows(df_raw, selected_locations, selected_statuses)
    /\ bound' = bound \cup {"df_filtered"}
    /\ pc' = "metrics"
    /\ UNCHANGED <<session, rendered, inputs, metrics, tabs, queried, after_refresh>>

\* ---------------------------------------------------- section 5: metrics
Metrics ==
    /\ pc = "metrics"
    /\ "df_filtered" \in bound
    /\ total_items' = Len(df_filtered.rows)
    /\ critical_items' = CountStatus(df_filtered, CRITICAL)
    /\ warning_items' = CountStatus(df_filtered, WARNING)
    /\ avg_coverage' = AvgCoverage(df_filtered)
    /\ delta' = CriticalDelta(CountStatus(df_filtered, CRITICAL))
    /\ bound' = bound \cup {"total_items", "critical_items", "warning_items", "avg_coverage"}
    /\ rendered' = rendered \cup {"metrics"}
    /\ pc' = "tab_overview"
    /\ UNCHANGED <<session, inputs, df_filtered, tabs, queried, after_refresh>>

\* ------------------------------------------------------- section 6: tabs
\* tab 1, df_filtered not empty: the heatmap
TabOverviewHeatmap ==
    /\ pc = "tab_overview"
    /\ "df_filtered" \in bound
    /\ df_filtered.rows # <<>>
    /\ rendered' = rendered \cup {"heatmap"}
    /\ pc' = "tab_analysis"
    /\ UNCHANGED <<session, bound, locals, queried, after_refresh>>

\* tab 1, df_filtered empty: st.info("No data matches your filters.")
TabOverviewNoData ==
    /\ pc = "tab_overview"
    /\ "df_filtered" \in bound
    /\ df_filtered.rows = <<>>
    /\ rendered' = rendered \cup {"no_data"}
    /\ pc' = "tab_analysis"
    /\ UNCHANGED <<session, bound, locals, queried, after_refresh>>

\* tab 2: the bar chart of risk_df and the scatter chart of df_filtered
TabAnalysis ==
    /\ pc = "tab_analysis"
    /\ "df_filtered" \in bound
    /\ risk_df' = RiskDf(df_filtered)
    /\ bound' = bound \cup {"risk_df"}
    /\ rendered' = rendered \cup {"bar_chart", "scatter"}
    /\ pc' = "tab_action"
    /\ UNCHANGED <<session, inputs, df_filtered, metrics, action_df, table, csv,
                   queried, after_refresh>>

\* tab 3, action_df not empty: the table and the download button
TabActionTable ==
    /\ pc = "tab_action"
    /\ "df_filtered" \in bound
    /\ ActionDf(df_filtered).rows # <<>>
    /\ action_df' = ActionDf(df_filtered)
    /\ table' = Project(ActionDf(df_filtered), TABLE_COLUMNS)
    /\ csv' = ToCsv(ActionDf(df_filtered))
    /\ bound' = bound \cup {"action_df", "csv"}
    /\ rendered' = rendered \cup {"dataframe", "download_button"}
    /\ pc' = "done"
    /\ UNCHANGED <<session, inputs, df_filtered, metrics, risk_df, queried, after_refresh>>

\* tab 3, action_df empty: st.success("... Inventory is healthy!")
TabActionHealthy ==
    /\ pc = "tab_action"
    /\ "df_filtered" \in bound
    /\ ActionDf(df_filtered).rows = <<>>
    /\ action_df' = ActionDf(df_filtered)
    /\ bound' = bound \cup {"action_df"}
    /\ rendered' = rendered \cup {"success"}
    /\ pc' = "done"
    /\ UNCHANGED <<session, inputs, df_filtered, metrics, risk_df, table, csv,
                   queried, after_refresh>>

\* ------------------------------------------------------ page interactions
\* the user changes the location selection: the script reruns
ChangeLocations ==
    /\ pc = "done"
    /\ "select_locations" \in rendered
    /\ \E new \in SUBSET loc_widget.options :
        /\ new # loc_widget.value
        /\ loc_widget' = [loc_widget EXCEPT !.value = new]
    /\ after_refresh' = FALSE
    /\ StartRun
    /\ UNCHANGED <<cache, stat_widget, button>>

\* the user changes the status selection: the script reruns
ChangeStatuses ==
    /\ pc = "done"
    /\ "filter_status" \in rendered
    /\ \E new \in SUBSET stat_widget.options :
        /\ new # stat_widget.value
        /\ stat_widget' = [stat_widget EXCEPT !.value = new]
    /\ after_refresh' = FALSE
    /\ StartRun
    /\ UNCHANGED <<cache, loc_widget, button>>

\* the user presses Refresh Data: the trigger is set and the script reruns
PressRefresh ==
    /\ pc = "done"
    /\ "refresh_button" \in rendered
    /\ button' = TRUE
    /\ after_refresh' = FALSE
    /\ StartRun
    /\ UNCHANGED <<cache, loc_widget, stat_widget>>

\* the user reruns the page without touching a widget
Rerun ==
    /\ pc \in {"done", "stopped"}
    /\ after_refresh' = FALSE
    /\ StartRun
    /\ UNCHANGED session

Next ==
    \/ LoadHit
    \/ LoadMiss
    \/ LoadFail
    \/ Sidebar
    \/ ButtonIdle
    \/ ButtonRefresh
    \/ Filter
    \/ Metrics
    \/ TabOverviewHeatmap
    \/ TabOverviewNoData
    \/ TabAnalysis
    \/ TabActionTable
    \/ TabActionHealthy
    \/ ChangeLocations
    \/ ChangeStatuses
    \/ PressRefresh
    \/ Rerun

Spec == Init /\ [][Next]_vars

\* ------------------------------------------------------------ properties
Selected(r) == r.LOCATION_ID \in selected_locations /\ r.STATUS \in selected_statuses

\* the positions of the snapshot rows the selection admits
SelectedAt == { i \in 1..Len(df_raw.rows) : Selected(df_raw.rows[i]) }

\* the positions of the filtered rows with the given status
StatusAt(label) == { i \in 1..Len(df_filtered.rows) : df_filtered.rows[i].STATUS = label }

\* C1: once the filter has run, the filtered view holds exactly the snapshot
\* rows whose LOCATION_ID is among the selected locations and whose STATUS is
\* among the selected statuses, each once, and the Total SKUs metric is the
\* number of such rows.
C1_FilteredExact ==
    /\ "df_filtered" \in bound =>
        /\ \A r \in Range(df_raw.rows) : r \in Range(df_filtered.rows) <=> Selected(r)
        /\ Range(df_filtered.rows) \subseteq Range(df_raw.rows)
        /\ Cardinality(Range(df_filtered.rows)) = Len(df_filtered.rows)
        /\ Len(df_filtered.rows) = Cardinality(SelectedAt)
    /\ "total_items" \in bound => total_items = Cardinality(SelectedAt)

\* a run whose selection drops some rows by location and some by status
C1_Witness ==
    /\ "total_items" \in bound
    /\ total_items > 0
    /\ \E r \in Range(df_raw.rows) :
        r.LOCATION_ID \in selected_locations /\ r.STATUS \notin selected_statuses
    /\ \E r \in Range(df_raw.rows) :
        r.LOCATION_ID \notin selected_locations /\ r.STATUS \in selected_statuses

\* DAYS_REMAINING of the filtered rows that do not carry the sentinel
KeptDays ==
    LET kept == SelectSeq(df_filtered.rows, LAMBDA r : r.DAYS_REMAINING # SENTINEL)
    IN [i \in 1..Len(kept) |-> kept[i].DAYS_REMAINING]

\* C2: the displayed average is the sum of DAYS_REMAINING over the filtered
\* rows without the sentinel divided by the number of those rows (stated for
\* filtered sets that hold at least one such row).
C2_SentinelExcluded ==
    ("avg_coverage" \in bound /\ Len(KeptDays) > 0) =>
        avg_coverage = Tenths(RoundTenths(SumSeq(KeptDays), Len(KeptDays)))

NonGood == SelectSeq(df_filtered.rows, LAMBDA r : r.STATUS # GOOD)

\* C3: when the download is offered, the CSV holds one line for each filtered
\* row whose status is not "GOOD" and no other line, and its header lists the
\* columns in the order of the displayed procurement table.
C3_CsvAsDisplayed ==
    "download_button" \in rendered =>
        /\ Len(csv) = Len(NonGood) + 1
        /\ \A i \in 1..Len(NonGood) : csv[i + 1] = Line(NonGood[i], csv[1])
        /\ csv[1] = table.columns

\* C4: the columns of the CSV are exactly location, item name, status,
\* current stock and suggested reorder quantity.
C4_CsvFiveColumns ==
    "download_button" \in rendered =>
        Range(csv[1]) = {"LOCATION_ID", "ITEM_NAME", "STATUS", "CURRENT_STOCK",
                         "SUGGESTED_REORDER_QTY"}

\* C5: a finished run over a snapshot with rows whose location or status
\* selection is empty has an empty filtered set, no error, the "no data"
\* indication, no report of a healthy inventory and no chart.
C5_EmptySelectionNoData ==
    (/\ pc = "done"
     /\ df_raw.rows # <<>>
     /\ selected_locations = {} \/ selected_statuses = {}) =>
        /\ df_filtered.rows = <<>>
        /\ "error" \notin rendered
        /\ "no_data" \in rendered
        /\ "success" \notin rendered
        /\ rendered \cap {"heatmap", "bar_chart", "scatter"} = {}

\* C6: in a run whose fetch failed the error message is the only element on
\* the page, the run is halted with no name bound, and every section after
\* the fetch finds df_raw bound.
C6_FetchFailureHalts ==
    /\ "error" \in rendered =>
        /\ pc = "stopped"
        /\ rendered = {"error"}
        /\ bound = {}
    /\ pc \in {"sidebar", "button", "filter", "metrics", "tab_overview",
               "tab_analysis", "tab_action", "done"} => "df_raw" \in bound

\* a run halted by a failed fetch
C6_Witness ==
    pc = "stopped" /\ "error" \in rendered /\ queried

\* C7: while the cache holds a snapshot, every step other than the Refresh
\* Data clear leaves the cache as it is, runs no warehouse query, and a run
\* that has df_raw bound holds the cached snapshot in it.
C7_Memoized ==
    [][(cache # <<>> /\ ~(pc = "button" /\ button)) =>
        /\ cache' = cache
        /\ queried' => queried
        /\ "df_raw" \in bound' => df_raw' = cache[1]]_vars

\* a run after a change of filter that finished without a query
C7_Witness ==
    /\ pc = "done"
    /\ ~queried
    /\ cache # <<>>
    /\ selected_locations # Unique(df_raw, "LOCATION_ID")

\* C8: the critical and warning counts are the numbers of filtered rows with
\* the respective label, their sum is at most the total, and the delta reads
\* '-Action Needed' exactly when the critical count is positive, 'All Good'
\* otherwise.
C8_Counts ==
    "critical_items" \in bound =>
        /\ critical_items = Cardinality(StatusAt(CRITICAL))
        /\ warning_items = Cardinality(StatusAt(WARNING))
        /\ critical_items + warning_items <= total_items
        /\ delta = "-Action Needed" <=> critical_items > 0
        /\ delta = "All Good" <=> critical_items = 0

\* a run with critical, warning and other rows in the filtered set
C8_Witness ==
    /\ "critical_items" \in bound
    /\ critical_items > 0
    /\ warning_items > 0
    /\ critical_items + warning_items < total_items

SIDEBAR == {"sidebar_title", "select_locations", "filter_status"}

\* what the run started by the Refresh Data rerun does
FreshAfterRefresh ==
    /\ (after_refresh /\ pc = "load") => cache = <<>>
    /\ (after_refresh /\ pc # "load") =>
        /\ queried
        /\ pc = "stopped" => rendered = {"error"} /\ "df_raw" \notin bound
        /\ pc # "stopped" => cache # <<>> /\ df_raw = cache[1]

\* C9 as stated: the run in which Refresh Data was pressed has rendered
\* nothing and filtered nothing when it clears the cache, and the run that
\* follows queries the warehouse or ends in the connection error.
C9_NothingRenderedBeforeClear ==
    /\ (pc = "button" /\ button) =>
        /\ rendered = {}
        /\ "df_filtered" \notin bound
    /\ FreshAfterRefresh

\* C9 amended: the run in which Refresh Data was pressed has rendered only
\* the sidebar title and the two filter controls and has filtered nothing
\* when it clears the cache, and the run that follows queries the warehouse
\* or ends in the connection error.
C9_RefreshQueriesAfresh ==
    /\ (pc = "button" /\ button) =>
        /\ rendered \subseteq SIDEBAR
        /\ bound \subseteq {"df_raw", "selected_locations", "selected_statuses"}
    /\ FreshAfterRefresh

\* the run after a Refresh press has queried and rendered its metrics
C9_Witness ==
    after_refresh /\ queried /\ "metrics" \in rendered

IsSentinel(r) == r.DAYS_REMAINING = SENTINEL

\* C10: the Top 5 set holds min(5, filtered rows) rows of the filtered set,
\* none of them has more days remaining than a filtered row left out, and a
\* sentinel row of the filtered set is in it whenever fewer than 5 filtered
\* rows are without the sentinel.
C10_TopFive ==
    "risk_df" \in bound =>
        LET top == Range(risk_df.rows)
            all == Range(df_filtered.rows)
        IN /\ Len(risk_df.rows) = IF Len(df_filtered.rows) < 5 THEN Len(df_filtered.rows) ELSE 5
           /\ Cardinality(top) = Len(risk_df.rows)
           /\ top \subseteq all
           /\ \A r \in top : \A o \in all \ top : r.DAYS_REMAINING <= o.DAYS_REMAINING
           /\ (/\ Cardinality({r \in all : ~IsSentinel(r)}) < 5
               /\ \E r \in all : IsSentinel(r)) => \E r \in top : IsSentinel(r)

\* more than five filtered rows, a sentinel row among the five
C10_Witness ==
    /\ "risk_df" \in bound
    /\ Len(df_filtered.rows) > 5
    /\ \E r \in Range(risk_df.rows) : IsSentinel(r)
    /\ \E r \in Range(df_filtered.rows) \ Range(risk_df.rows) : IsSentinel(r)

====
